---- MODULE Spec2Model ----
(***************************************************************************)
(* A model of solc-DApp (src/utils/utils.py, src/main.py): the scanner,    *)
(* the directive parser, the dependency graph builder, the import library  *)
(* resolver, the three build drivers and the packer.                       *)
(*                                                                         *)
(* A path is a sequence of segments (<<"proj","in","A.sol">> is            *)
(* /proj/in/A.sol).  The path of an import directive is kept as the text   *)
(* holds it, its quote characters included, each written as a segment of   *)
(* its own (<<"\"", ".", "B.sol", "\"">> is "./B.sol" in double quotes).    *)
(* The structured parser strips the double quotes only, so a single-quoted *)
(* import comes out of it with its apostrophes.                            *)
(***************************************************************************)
EXTENDS Naturals, Sequences, FiniteSets, TLC

VARIABLES
    ls,          \* os.listdir: directory -> sequence of entry names
    src,         \* the source files on disk: path -> content
    modules,     \* the files under <project>/node_modules: path -> content
    outDir,      \* the output directory: artifact stem -> "absent" | "empty" | "nonempty"
    startOut,    \* the output directory as the run found it
    nodeModules, \* whether <project>/node_modules exists
    active,      \* the compiler version solc-select has made active
    installed,   \* the compiler versions installed
    mode,        \* the entry point running: "idle", "compileDapp", ...
    queue,       \* the files the running driver has still to reach, the current one first
    pc,          \* where the driver is in its loop body: "reach" | "compile"
    log,         \* the external actions issued so far, in order
    reached,     \* per file the driver reached: the artifact state found and the outcome
    ret,         \* how the run ended: "none" | "running" | "True" | "False" | "raised" | "returned"
    gpc,         \* which of the graph functions has been applied
    dot,         \* parseDependency's Digraph: node and edge statements, in order
    rendered,    \* whether the graph was rendered
    nodeList,    \* getLeafNode's result
    libResult,   \* calculateImportLib's result
    packed       \* the <stem>_packed.sol files of the output directory

fsVars == <<ls, src, modules, nodeModules>>
toolVars == <<active, installed>>
buildVars == <<outDir, startOut, mode, queue, pc, log, reached, ret>>
graphVars == <<gpc, dot, rendered, nodeList, libResult, packed>>
vars == <<ls, src, modules, outDir, startOut, nodeModules, active, installed, mode, queue,
          pc, log, reached, ret, gpc, dot, rendered, nodeList, libResult, packed>>

-----------------------------------------------------------------------------
(* Bounds *)

\* The most import directives the files of one tree hold together (graph runs).
MaxImports == 2

-----------------------------------------------------------------------------
(* The disk *)

ProjDir == <<"proj">>
InputDir == <<"proj", "in">>
SubDir == <<"proj", "in", "sub">>
OutputDir == <<"proj", "out">>

\* A file that exists under the input directory and is no source file.
NotesFile == <<"proj", "in", "sub", "notes.txt">>

FileA == <<"proj", "in", "A.sol">>
FileB == <<"proj", "in", "B.sol">>
FileS == <<"proj", "in", "sub", "A.sol">>
SourcePaths == {FileA, FileB, FileS}

None == <<"">>

Last(s) == s[Len(s)]

Dirname(p) == SubSeq(p, 1, Len(p) - 1)

NodeModulesDir == Dirname(InputDir) \o <<"node_modules">>

DiskDirs == {<<>>, ProjDir, InputDir, SubDir, OutputDir}
            \cup (IF nodeModules THEN {NodeModulesDir} ELSE {})

DiskFiles == DOMAIN src \cup DOMAIN modules \cup {NotesFile}

Join(dirName, importFile) == dirName \o importFile

RECURSIVE Walk(_, _)
Walk(cur, rest) ==
    IF rest = <<>> THEN cur
    ELSE IF cur \notin DiskDirs THEN None
    ELSE IF Head(rest) = "." THEN Walk(cur, Tail(rest))
    ELSE IF Head(rest) = ".."
         THEN Walk(IF cur = <<>> THEN cur ELSE Dirname(cur), Tail(rest))
    ELSE Walk(cur \o <<Head(rest)>>, Tail(rest))

\* The disk entry a path names, None when it names nothing.
Resolve(p) ==
    LET r == Walk(<<>>, p)
    IN IF r \in DiskDirs \cup DiskFiles THEN r ELSE None

Exists(p) == Resolve(p) # None

SameFile(a, b) == Resolve(a) = Resolve(b)

\* os.path.normpath: the lexical normal form of an absolute path.
RECURSIVE NormWalk(_, _)
NormWalk(cur, rest) ==
    IF rest = <<>> THEN cur
    ELSE IF Head(rest) = "." THEN NormWalk(cur, Tail(rest))
    ELSE IF Head(rest) = ".."
         THEN NormWalk(IF cur = <<>> THEN cur ELSE Dirname(cur), Tail(rest))
    ELSE NormWalk(cur \o <<Head(rest)>>, Tail(rest))

Normpath(p) == NormWalk(<<>>, p)

-----------------------------------------------------------------------------
(* SourceScanner *)

\* re.match("[\S]*.sol$", inputFile) on the entry names of the model's disk.
IsSolName(inputFile) == inputFile \in {"A.sol", "B.sol"}

\* contractName[:len(contractName) - 4]
Stem(contractName) ==
    CASE contractName = "A.sol" -> "A"
      [] contractName = "B.sol" -> "B"
      [] OTHER -> contractName

RECURSIVE ParseContractList(_)
RECURSIVE ScanEntries(_, _)
ScanEntries(inputDir, inputFiles) ==
    IF inputFiles = <<>> THEN <<>>
    ELSE LET inputFile == Head(inputFiles)
             targetPath == inputDir \o <<inputFile>>
             here == IF targetPath \notin DiskDirs /\ IsSolName(inputFile)
                     THEN <<targetPath>>
                     ELSE IF targetPath \in DiskDirs
                          THEN ParseContractList(targetPath)
                          ELSE <<>>
         IN here \o ScanEntries(inputDir, Tail(inputFiles))

\* The keys of the result dict, in insertion order; the value of a key is its
\* last segment.
ParseContractList(inputDir) == ScanEntries(inputDir, ls[inputDir])

Range(s) == {s[i] : i \in DOMAIN s}

-----------------------------------------------------------------------------
(* DirectiveParser *)

UnknownVersion == "unknown version"
NoMatch == "no match"

\* re.search('0\.[0-9\.]*', text).group(0) on the pragma texts of the model.
VersionNumber(text) ==
    CASE text \in {"^0.8.0", "0.8.0"} -> "0.8.0"
      [] text = "0.7.6" -> "0.7.6"
      [] OTHER -> NoMatch

RECURSIVE FirstNumbered(_)
FirstNumbered(pragmas) ==
    IF pragmas = <<>> THEN UnknownVersion
    ELSE IF VersionNumber(Head(pragmas).value) # NoMatch
         THEN VersionNumber(Head(pragmas).value)
         ELSE FirstNumbered(Tail(pragmas))

\* The first line holding both 'pragma' and a version number.
ParseVersionReadline(filePath) == FirstNumbered(src[filePath].pragmas)

\* ParseVersion returning an empty text, not the sentinel, for a file without pragma.
ParseVersionNoSentinel(filePath) ==
    IF ~src[filePath].parses THEN ParseVersionReadline(filePath)
    ELSE IF src[filePath].pragmas # <<>> THEN Head(src[filePath].pragmas).value
    ELSE ""

ParseVersion(filePath) ==
    IF ~src[filePath].parses THEN ParseVersionReadline(filePath)
    ELSE IF src[filePath].pragmas # <<>> THEN Head(src[filePath].pragmas).value
    ELSE UnknownVersion

\* pathString.strip('"') of the structured parser.
StripDouble(pathString) == SelectSeq(pathString, LAMBDA s : s # "\"")

ParseImportList(filePath) ==
    IF ~src[filePath].parses THEN <<>>
    ELSE [i \in DOMAIN src[filePath].imports |-> StripDouble(src[filePath].imports[i].path)]

-----------------------------------------------------------------------------
(* DependencyGraphBuilder *)

\* Lines 175-178 and 208-211: the first key that is the same file as realPath.
RECURSIVE CanonicalKey(_, _)
CanonicalKey(realPath, keys) ==
    IF keys = <<>> THEN realPath
    ELSE IF Exists(realPath) /\ SameFile(Head(keys), realPath) THEN Head(keys)
    ELSE CanonicalKey(realPath, Tail(keys))

FileLabel(path) ==
    [kind |-> "file", name |-> Last(path), path |-> path, version |-> ParseVersion(path)]

MissingLabel(realPath) == [kind |-> "404", path |-> realPath]

EmptyDot == [nodes |-> <<>>, edges |-> <<>>]

RECURSIVE AddFileNodes(_, _)
AddFileNodes(d, paths) ==
    IF paths = <<>> THEN d
    ELSE AddFileNodes(
            [d EXCEPT !.nodes = Append(@, [name |-> Head(paths), label |-> FileLabel(Head(paths))])],
            Tail(paths))

\* AddImportEdge with the edge drawn from the importer to the import.
AddImportEdgeReversed(d, path, importFile, keys) ==
    LET realPath == CanonicalKey(Join(Dirname(path), importFile), keys)
    IN IF realPath \in Range(keys)
       THEN [d EXCEPT !.edges = Append(@, <<path, realPath>>)]
       ELSE [nodes |-> Append(d.nodes, [name |-> realPath, label |-> [kind |-> "404", path |-> realPath]]),
             edges |-> Append(d.edges, <<path, realPath>>)]

\* Lines 179-183: one import of the file at path.
AddImportEdge(d, path, importFile, keys) ==
    LET realPath == CanonicalKey(Join(Dirname(path), importFile), keys)
    IN IF realPath \in Range(keys)
       THEN [d EXCEPT !.edges = Append(@, <<realPath, path>>)]
       ELSE [nodes |-> Append(d.nodes, [name |-> realPath, label |-> MissingLabel(realPath)]),
             edges |-> Append(d.edges, <<realPath, path>>)]

RECURSIVE AddImportEdges(_, _, _, _)
AddImportEdges(d, path, importFiles, keys) ==
    IF importFiles = <<>> THEN d
    ELSE AddImportEdges(AddImportEdge(d, path, Head(importFiles), keys),
                        path, Tail(importFiles), keys)

RECURSIVE AddAllEdges(_, _, _)
AddAllEdges(d, paths, keys) ==
    IF paths = <<>> THEN d
    ELSE AddAllEdges(AddImportEdges(d, Head(paths), ParseImportList(Head(paths)), keys),
                     Tail(paths), keys)

ParseDependency(inputDir) ==
    LET result == ParseContractList(inputDir)
    IN AddAllEdges(AddFileNodes(EmptyDot, result), result, result)

\* CountImport counting the importer instead of the imported file.
CountImportOfImporter(nl, path, importFile, keys) ==
    LET realPath == CanonicalKey(Join(Dirname(path), importFile), keys)
    IN IF realPath \in Range(keys)
       THEN [nl EXCEPT ![path] = @ + 1]
       ELSE nl

\* Lines 206-213: one import of the file at path.
CountImport(nl, path, importFile, keys) ==
    LET realPath == CanonicalKey(Join(Dirname(path), importFile), keys)
    IN IF realPath \in Range(keys)
       THEN [nl EXCEPT ![realPath] = @ + 1]
       ELSE nl

RECURSIVE CountImports(_, _, _, _)
CountImports(nl, path, importFiles, keys) ==
    IF importFiles = <<>> THEN nl
    ELSE CountImports(CountImport(nl, path, Head(importFiles), keys),
                      path, Tail(importFiles), keys)

RECURSIVE CountAll(_, _, _)
CountAll(nl, paths, keys) ==
    IF paths = <<>> THEN nl
    ELSE CountAll(CountImports(nl, Head(paths), ParseImportList(Head(paths)), keys),
                  Tail(paths), keys)

\* The counts, keyed by path; the dict's order is that of ParseContractList.
GetLeafNode(inputDir) ==
    LET result == ParseContractList(inputDir)
    IN CountAll([p \in Range(result) |-> 0], result, result)

-----------------------------------------------------------------------------
(* ImportLibraryResolver *)

\* importFile.replace("'", "")
StripQuotes(importFile) == SelectSeq(importFile, LAMBDA s : s # "'")

\* The imports of one file that do not exist on disk, quote-stripped, in order.
RECURSIVE UnresolvedOf(_, _)
UnresolvedOf(path, importFiles) ==
    IF importFiles = <<>> THEN <<>>
    ELSE LET importFile == StripQuotes(Head(importFiles))
         IN (IF ~Exists(Join(Dirname(path), importFile)) THEN <<importFile>> ELSE <<>>)
            \o UnresolvedOf(path, Tail(importFiles))

\* Dedup that keeps the repetitions: list(lib).
DedupKeepsAll(lib) == lib

\* list(set(lib)): the list without its repetitions.
RECURSIVE Dedup(_)
Dedup(lib) ==
    IF lib = <<>> THEN <<>>
    ELSE LET rest == Dedup(SubSeq(lib, 1, Len(lib) - 1))
         IN IF Last(lib) \in Range(rest) THEN rest ELSE Append(rest, Last(lib))

RECURSIVE LibScan(_, _)
LibScan(acc, paths) ==
    IF paths = <<>> THEN acc
    ELSE LET found == UnresolvedOf(Head(paths), ParseImportList(Head(paths)))
         IN LibScan([libNum |-> acc.libNum + (IF found # <<>> THEN 1 ELSE 0),
                     lib |-> acc.lib \o found],
                    Tail(paths))

CalculateImportLib(inputDir) ==
    LET result == ParseContractList(inputDir)
        acc == LibScan([libNum |-> 0, lib |-> <<>>], result)
    IN [libNum |-> acc.libNum, total |-> Len(result), libs |-> Dedup(acc.lib)]

-----------------------------------------------------------------------------
(* The inputs of the model *)

Perms(S) == {s \in [1..Cardinality(S) -> S] : \A i, j \in DOMAIN s : i # j => s[i] # s[j]}

Sol(v) == [name |-> "solidity", value |-> v]
Experimental == [name |-> "experimental", value |-> "ABIEncoderV2"]

Content(parses, pragmas, imports) ==
    [parses |-> parses, pragmas |-> pragmas, imports |-> imports]

\* An import path in double quotes, in single quotes.
DQ(path) == <<"\"">> \o path \o <<"\"">>
SQ(path) == <<"'">> \o path \o <<"'">>

\* import <path>;  and  import <symbols> from <path>;
Plain(path) == [form |-> "plain", path |-> path]
From(path) == [form |-> "from", path |-> path]

ImportStrings ==
    { DQ(<<".", "B.sol">>), DQ(<<"B.sol">>), SQ(<<".", "B.sol">>),
      DQ(<<"m.sol">>), DQ(<<"..", "m.sol">>),
      DQ(<<"sub", "A.sol">>), DQ(<<"A.sol">>), DQ(<<"sub", "notes.txt">>) }

\* The files that hold imports in the graph runs: one beside FileB, one below it.
Importers == {FileA, FileS}

SeqsUpTo(S, n) == UNION {[1..k -> S] : k \in 0..n}

\* The listings of a tree holding the source files of present: the entries of
\* the input directory in any order (a subdirectory without source files is
\* listed last).
Listings(present) ==
    { [d \in {InputDir, SubDir} |->
          IF d = InputDir THEN top
          ELSE <<"notes.txt">> \o (IF FileS \in present THEN <<"A.sol">> ELSE <<>>)] :
      top \in IF FileS \in present
              THEN Perms({Last(p) : p \in present \ {FileS}} \cup {"sub"})
              ELSE {t \o <<"sub">> : t \in Perms({Last(p) : p \in present})} }

NotPacked == [written |-> FALSE, version |-> "", contract |-> <<>>]

ToolInit ==
    /\ active = "0.6.12"
    /\ installed = {"0.6.12"}

BuildIdle ==
    /\ mode = "idle"
    /\ queue = <<>>
    /\ pc = "reach"
    /\ log = <<>>
    /\ reached = <<>>
    /\ ret = "none"

GraphIdle ==
    /\ gpc = "idle"
    /\ dot = EmptyDot
    /\ rendered = FALSE
    /\ nodeList = <<>>
    /\ libResult = [libNum |-> 0, total |-> 0, libs |-> <<>>]
    /\ packed = [s \in {"A", "B"} |-> NotPacked]

-----------------------------------------------------------------------------
(* Graph runs: one of the three functions applied to a tree *)

\* The imports of file p in a layout: a sequence of (file, import string) pairs.
RECURSIVE ImportsIn(_, _)
ImportsIn(layout, p) ==
    IF layout = <<>> THEN <<>>
    ELSE (IF Head(layout)[1] = p THEN <<Plain(Head(layout)[2])>> ELSE <<>>)
         \o ImportsIn(Tail(layout), p)

InitGraph ==
    /\ ls \in Listings(SourcePaths)
    /\ \E layout \in SeqsUpTo(Importers \X ImportStrings, MaxImports), okA \in BOOLEAN :
              src = [p \in SourcePaths |->
                       Content(p # FileA \/ okA, <<Sol("^0.8.0")>>, ImportsIn(layout, p))]
    /\ modules = <<>>
    /\ outDir = [s \in {"A", "B"} |-> "absent"]
    /\ startOut = outDir
    /\ nodeModules = FALSE
    /\ ToolInit
    /\ BuildIdle
    /\ GraphIdle

DoParseDependency ==
    /\ gpc = "idle"
    /\ \E graph \in BOOLEAN :
         /\ dot' = ParseDependency(InputDir)
         /\ rendered' = graph
    /\ gpc' = "parseDependency"
    /\ UNCHANGED <<fsVars, toolVars, buildVars, nodeList, libResult, packed>>

DoGetLeafNode ==
    /\ gpc = "idle"
    /\ nodeList' = GetLeafNode(InputDir)
    /\ gpc' = "getLeafNode"
    /\ UNCHANGED <<fsVars, toolVars, buildVars, dot, rendered, libResult, packed>>

DoCalculateImportLib ==
    /\ gpc = "idle"
    /\ libResult' = CalculateImportLib(InputDir)
    /\ gpc' = "calculateImportLib"
    /\ UNCHANGED <<fsVars, toolVars, buildVars, dot, rendered, nodeList, packed>>

NextGraph == DoParseDependency \/ DoGetLeafNode \/ DoCalculateImportLib

SpecGraph == InitGraph /\ [][NextGraph]_vars

-----------------------------------------------------------------------------
(* Packer *)

Text(path) == IF path \in DOMAIN src THEN src[path] ELSE modules[path]

Failed == [version |-> "failed", result |-> "failed"]

\* re.search('pragma solidity [\S]*;', text)
RECURSIVE FirstSolidity(_)
FirstSolidity(pragmas) ==
    IF pragmas = <<>> THEN NoMatch
    ELSE IF Head(pragmas).name = "solidity" THEN Head(pragmas).value
    ELSE FirstSolidity(Tail(pragmas))

\* The imports one of the two patterns matches, in the order of the text.
Matches(path, form) == SelectSeq(Text(path).imports, LAMBDA d : d.form = form)

\* Lines 403-419 and 424-440.  re.sub takes every match of the pattern out of
\* the text, so the search at the end of the first pass finds nothing and the
\* loop ends: the first match alone is looked up and inlined.
RECURSIVE GetPackedContract(_, _)
InlineImports(importItems, contractPath, nodeModulePath) ==
    IF importItems = <<>> THEN [version |-> "", result |-> <<>>]
    ELSE LET targetPath1 == Join(contractPath, Head(importItems).path)
             targetPath2 == Join(nodeModulePath, Head(importItems).path)
         IN IF Exists(targetPath1)
            THEN GetPackedContract(Resolve(targetPath1), nodeModulePath)
            ELSE IF Exists(targetPath2)
            THEN GetPackedContract(Resolve(targetPath2), nodeModulePath)
            ELSE Failed

\* The result is the sequence of the file bodies put together: the body of a
\* file, its version and import directives taken out, is written as its path.
\* Line 423 empties what the first loop inlined.
GetPackedContract(contractPath, nodeModulePath) ==
    IF FirstSolidity(Text(contractPath).pragmas) = NoMatch THEN Failed
    ELSE LET first == InlineImports(Matches(contractPath, "plain"), contractPath, nodeModulePath)
         IN IF first.version = "failed" THEN Failed
            ELSE LET second == InlineImports(Matches(contractPath, "from"),
                                             contractPath, nodeModulePath)
                 IN IF second.version = "failed" THEN Failed
                    ELSE [version |-> FirstSolidity(Text(contractPath).pragmas),
                          result |-> second.result \o <<contractPath>>]

\* Lines 459-469: the files in the order of the dict, a failed one passed over.
RECURSIVE PackAll(_, _, _)
PackAll(out, leafNodes, nodeModulePath) ==
    IF leafNodes = <<>> THEN out
    ELSE LET got == GetPackedContract(Head(leafNodes), nodeModulePath)
         IN PackAll(IF got.version = "failed" THEN out
                    ELSE [out EXCEPT ![Stem(Last(Head(leafNodes)))] =
                            [written |-> TRUE, version |-> got.version,
                             contract |-> got.result]],
                    Tail(leafNodes), nodeModulePath)

\* Lines 453-457: every key of getLeafNode's dict, whatever its count.
PackedNodes(inputDir) ==
    LET nl == GetLeafNode(inputDir)
    IN SelectSeq(ParseContractList(inputDir), LAMBDA path : path \in DOMAIN nl)

GetPacked(inputDir) ==
    PackAll(packed, PackedNodes(inputDir), Dirname(inputDir) \o <<"node_modules">>)

DoGetPacked ==
    /\ gpc = "idle"
    /\ packed' = GetPacked(InputDir)
    /\ gpc' = "getPacked"
    /\ UNCHANGED <<fsVars, toolVars, buildVars, dot, rendered, nodeList, libResult>>

-----------------------------------------------------------------------------
(* Packing runs *)

LibFile == NodeModulesDir \o <<"lib.sol">>
DeepFile == NodeModulesDir \o <<"deep.sol">>

\* Imports of the packing runs: written without quotes (the lookup finds
\* node_modules/lib.sol for them) and, as Solidity has them, in quotes.
PackImports ==
    { Plain(<<"lib.sol">>), Plain(<<"gone.sol">>), From(<<"lib.sol">>),
      From(<<"gone.sol">>), Plain(DQ(<<"lib.sol">>)) }

Quoted(d) == Head(d.path) \in {"\"", "'"}

PackContent(pragmas, imports) ==
    Content(\A i \in DOMAIN imports : Quoted(imports[i]), pragmas, imports)

InitPack ==
    /\ ls \in Listings({FileA, FileB})
    /\ \E pa, pb \in {<<>>, <<Sol("^0.8.0")>>},
          ia \in SeqsUpTo(PackImports, MaxImports),
          ib \in SeqsUpTo(PackImports, 1) :
         src = [p \in {FileA, FileB} |->
                  IF p = FileA THEN PackContent(pa, ia) ELSE PackContent(pb, ib)]
    /\ \E withDeep \in BOOLEAN,
          pl \in {<<>>, <<Sol("0.7.6")>>},
          il \in {<<>>, <<Plain(<<"deep.sol">>)>>, <<From(<<"gone.sol">>)>>} :
         modules = [p \in {LibFile} \cup (IF withDeep THEN {DeepFile} ELSE {}) |->
                  IF p = LibFile THEN PackContent(pl, il)
                  ELSE PackContent(<<Sol("0.7.6")>>, <<>>)]
    /\ outDir = [s \in {"A", "B"} |-> "absent"]
    /\ startOut = outDir
    /\ nodeModules = TRUE
    /\ ToolInit
    /\ BuildIdle
    /\ GraphIdle

NextPack == DoGetPacked

SpecPack == InitPack /\ [][NextPack]_vars

-----------------------------------------------------------------------------
(* BuildDriver *)

\* RemapFlags without the test of lines 280-281: a flag for "." too.
RECURSIVE RemapFlagsKeepDot(_, _)
RemapFlagsKeepDot(importLibs, basePath) ==
    IF importLibs = <<>> THEN <<>>
    ELSE LET libs == Head(importLibs)
         IN << [key |-> libs[1], path |-> basePath \o <<libs[1]>>] >>
            \o RemapFlagsKeepDot(Tail(importLibs), basePath)

\* Lines 278-282: the remap flags, one per import library whose first segment
\* is not ".".
RECURSIVE RemapFlags(_, _)
RemapFlags(importLibs, basePath) ==
    IF importLibs = <<>> THEN <<>>
    ELSE LET libs == Head(importLibs)
         IN (IF libs[1] = "." THEN <<>>
             ELSE << [key |-> libs[1], path |-> basePath \o <<libs[1]>>] >>)
            \o RemapFlags(Tail(importLibs), basePath)

\* Lines 276-287: the command handed to os.system.
CompileCommand(contractPath, inputDir, outputDir) ==
    [remaps |-> RemapFlags(CalculateImportLib(inputDir).libs,
                           Dirname(inputDir) \o <<"node_modules">>),
     source |-> contractPath,
     target |-> [dir |-> outputDir, stem |-> Stem(Last(contractPath))],
     allow  |-> Dirname(inputDir)]

SwitchEvent(cleanVersion) == [op |-> "switch", version |-> cleanVersion]

CompileEvent(cmd, wrote) == [op |-> "compile", cmd |-> cmd, wrote |-> wrote]

\* The value a driver ends with when its loop runs out.
EndOf(m) == IF m = "compileDapp" THEN "True" ELSE "returned"

\* The loop moves on to the next file.
NextFile ==
    /\ queue' = Tail(queue)
    /\ pc' = "reach"
    /\ ret' = IF Tail(queue) = <<>> THEN EndOf(mode) ELSE "running"

Record(f, found, outcome, events) ==
    [file |-> f, found |-> found, outcome |-> outcome, events |-> events]

\* ArtifactPresent without the size test: an empty artifact counts as built.
ArtifactPresentAnySize(m, stem) ==
    m # "compileContract" /\ outDir[stem] # "absent"

\* Lines 232-233 and 266-267: the artifact exists and is not empty.
\* compileContract has no such test.
ArtifactPresent(m, stem) ==
    m # "compileContract" /\ outDir[stem] = "nonempty"

\* SwitchVersion issuing the switch only when the version differs from the active one.
SwitchVersionIfChanged(cleanVersion) ==
    /\ installed' = installed \cup {cleanVersion}
    /\ active' = cleanVersion
    /\ log' = IF cleanVersion = active THEN log ELSE Append(log, SwitchEvent(cleanVersion))

\* Lines 102-108 with 300-312: switchVersion for a text that holds a number.
SwitchVersion(cleanVersion) ==
    /\ installed' = IF cleanVersion # active
                    THEN installed \cup {cleanVersion}
                    ELSE installed
    /\ active' = cleanVersion
    /\ log' = Append(log, SwitchEvent(cleanVersion))

\* Lines 265-275 (231-241, 331-339): the loop body up to the library directory.
ReachFile(m) ==
    /\ mode = m
    /\ ret = "running"
    /\ pc = "reach"
    /\ queue # <<>>
    /\ LET contractPath == Head(queue)
           stem == Stem(Last(contractPath))
           found == outDir[stem]
           version == ParseVersion(contractPath)
       IN IF ArtifactPresent(m, stem)
          THEN /\ reached' = Append(reached, Record(contractPath, found, "skipped", <<>>))
               /\ NextFile
               /\ UNCHANGED <<active, installed, log, nodeModules>>
          ELSE IF version = UnknownVersion
          THEN /\ reached' = Append(reached, Record(contractPath, found, "unknown", <<>>))
               /\ NextFile
               /\ UNCHANGED <<active, installed, log, nodeModules>>
          ELSE IF VersionNumber(version) = NoMatch
          THEN \* re.search(...) is None: .group raises AttributeError
               /\ reached' = Append(reached, Record(contractPath, found, "raised", <<>>))
               /\ queue' = Tail(queue)
               /\ pc' = "reach"
               /\ ret' = IF m = "compileDapp" THEN "False" ELSE "raised"
               /\ UNCHANGED <<active, installed, log, nodeModules>>
          ELSE /\ SwitchVersion(VersionNumber(version))
               /\ nodeModules' = TRUE
               /\ reached' = Append(reached,
                     Record(contractPath, found, "switched",
                            <<SwitchEvent(VersionNumber(version))>>))
               /\ pc' = "compile"
               /\ UNCHANGED <<queue, ret>>
    /\ UNCHANGED <<ls, src, modules, outDir, startOut, mode, graphVars>>

\* Lines 276-290 (242-254, 340-352): the command is built and run; the shell
\* creates the artifact, which the compiler leaves empty or not.
CompileFile(m) ==
    /\ mode = m
    /\ ret = "running"
    /\ pc = "compile"
    /\ LET contractPath == Head(queue)
           cmd == CompileCommand(contractPath, InputDir, OutputDir)
       IN \E wrote \in {"empty", "nonempty"} :
            /\ outDir' = [outDir EXCEPT ![cmd.target.stem] = wrote]
            /\ log' = Append(log, CompileEvent(cmd, wrote))
            /\ reached' = [reached EXCEPT ![Len(reached)] =
                  [@ EXCEPT !.outcome = "compiled",
                            !.events = Append(@, CompileEvent(cmd, wrote))]]
    /\ NextFile
    /\ UNCHANGED <<ls, src, modules, startOut, nodeModules, active, installed, mode, graphVars>>

Begin(m, files) ==
    /\ mode = "idle"
    /\ mode' = m
    /\ queue' = files
    /\ pc' = "reach"
    /\ ret' = IF files = <<>> THEN EndOf(m) ELSE "running"
    /\ UNCHANGED <<fsVars, toolVars, outDir, startOut, log, reached, graphVars>>

\* Line 261: every discovered file.
StartCompileDapp == Begin("compileDapp", ParseContractList(InputDir))

\* Lines 223-227: the files of count 0, in the order of the dict.
LeafNodes(inputDir) ==
    LET nl == GetLeafNode(inputDir)
    IN SelectSeq(ParseContractList(inputDir), LAMBDA path : nl[path] = 0)

StartCompileLeafNodes == Begin("compileLeafNodes", LeafNodes(InputDir))

\* Lines 320-329: the last file of the dict whose stem is the target.
RECURSIVE NamedFile(_, _, _)
NamedFile(leafNode, paths, targetContract) ==
    IF paths = <<>> THEN leafNode
    ELSE NamedFile(IF Stem(Last(Head(paths))) = targetContract THEN <<Head(paths)>> ELSE leafNode,
                   Tail(paths), targetContract)

StartCompileContract ==
    \E targetContract \in {"A", "B"} :
        Begin("compileContract", NamedFile(<<>>, ParseContractList(InputDir), targetContract))

DappReach == ReachFile("compileDapp")
DappCompile == CompileFile("compileDapp")
LeafReach == ReachFile("compileLeafNodes")
LeafCompile == CompileFile("compileLeafNodes")
ContractReach == ReachFile("compileContract")
ContractCompile == CompileFile("compileContract")

-----------------------------------------------------------------------------
(* Build runs: one of the three drivers applied to a tree *)

\* The most files of a tree whose version is not plainly declared.
MaxIrregular == 1

PlainKinds == { <<TRUE, <<Sol("^0.8.0")>> >>, <<TRUE, <<Sol("0.7.6")>> >> }

\* No pragma; an experimental pragma first; a file the structured parser
\* rejects, whose lines hold a version.
IrregularKinds ==
    { <<TRUE, <<>> >>,
      <<TRUE, <<Experimental, Sol("^0.8.0")>> >>,
      <<FALSE, <<Experimental, Sol("^0.8.0")>> >> }

\* What FileA imports in the build runs.
BuildImports ==
    { <<>>, << Plain(DQ(<<".", "B.sol">>)) >>, << From(DQ(<<"@oz", "x.sol">>)) >>,
      << From(DQ(<<"@oz", "x.sol">>)), Plain(SQ(<<".", "m.sol">>)) >>,
      << From(DQ(<<"@oz", "x.sol">>)), Plain(DQ(<<"@oz", "y.sol">>)) >> }

InitBuild ==
    /\ \E present \in {s \in SUBSET SourcePaths : FileA \in s} :
         /\ ls \in Listings(present)
         /\ \E kind \in [present -> PlainKinds \cup IrregularKinds], imps \in BuildImports :
              /\ Cardinality({p \in present : kind[p] \in IrregularKinds}) <= MaxIrregular
              /\ src = [p \in present |->
                          Content(kind[p][1], kind[p][2], IF p = FileA THEN imps ELSE <<>>)]
    /\ modules = <<>>
    /\ outDir \in {[s \in {"A", "B"} |-> IF s = "A" THEN a ELSE "absent"] :
                     a \in {"absent", "empty", "nonempty"}}
    /\ startOut = outDir
    /\ nodeModules = FALSE
    /\ ToolInit
    /\ BuildIdle
    /\ GraphIdle

NextBuild ==
    \/ StartCompileDapp
    \/ StartCompileLeafNodes
    \/ StartCompileContract
    \/ DappReach
    \/ DappCompile
    \/ LeafReach
    \/ LeafCompile
    \/ ContractReach
    \/ ContractCompile

SpecBuild == InitBuild /\ [][NextBuild]_vars

-----------------------------------------------------------------------------
(* What the claims speak of, stated on the disk and not on the code's loops *)

Scanned == DOMAIN src

\* The import directives the structured parser yields: (file, position).
Directives == {d \in Scanned \X (1..MaxImports + 1) : d[2] <= Len(ParseImportList(d[1]))}

RawImport(d) == ParseImportList(d[1])[d[2]]

\* The path an import names as written, and the disk entry it resolves to.
ImportPath(d) == Join(Dirname(d[1]), RawImport(d))
Target(d) == Resolve(ImportPath(d))

ImportsOf(g, f) == {d \in Directives : d[1] = g /\ Target(d) = f}

EdgeCount(s, t) == Cardinality({i \in DOMAIN dot.edges : dot.edges[i] = <<s, t>>})

NodeCount(n) == Cardinality({i \in DOMAIN dot.nodes : dot.nodes[i].name = n})

\* An import is unresolved for the library resolver when its quote-stripped
\* path does not exist on disk.
StrippedImport(d) == SelectSeq(RawImport(d), LAMBDA s : s # "'")
Unresolved(d) == Resolve(Join(Dirname(d[1]), StrippedImport(d))) = None

-----------------------------------------------------------------------------
(* What the build claims speak of *)

\* The files whose loop body has run to its end.
Finished == {i \in DOMAIN reached : i < Len(reached) \/ pc = "reach"}

RECURSIVE EventsOf(_)
EventsOf(rs) == IF rs = <<>> THEN <<>> ELSE Head(rs).events \o EventsOf(Tail(rs))

\* The version number a file declares: that of its first pragma, or, for a file
\* the structured parser rejects, of its first pragma line holding a number.
\* NoMatch when it declares none.
DeclaredNumber(f) ==
    IF src[f].parses
    THEN IF src[f].pragmas = <<>> THEN NoMatch
         ELSE CASE Head(src[f].pragmas).value = "^0.8.0" -> "0.8.0"
                [] Head(src[f].pragmas).value = "0.7.6" -> "0.7.6"
                [] OTHER -> NoMatch
    ELSE IF \E i \in DOMAIN src[f].pragmas : src[f].pragmas[i].value = "^0.8.0"
         THEN "0.8.0"
         ELSE NoMatch

\* Version extraction finds no pragma (no numbered pragma line in a file the
\* structured parser rejects): it returns the sentinel.
DeclaresNoVersion(f) ==
    IF src[f].parses THEN src[f].pragmas = <<>>
    ELSE \A i \in DOMAIN src[f].pragmas : src[f].pragmas[i].value \notin {"^0.8.0", "0.7.6"}

CompilesOf(f) == {i \in DOMAIN log : log[i].op = "compile" /\ log[i].cmd.source = f}

-----------------------------------------------------------------------------
(* C1 *)

\* C1: in compileDapp and compileLeafNodes, a file reached while a non-empty
\* artifact <outputDir>/<stem>.json exists has no version switch and no compile
\* issued for it; a file reached while the artifact is absent or empty, and
\* whose version is known (version extraction yields a text holding a version
\* number), has the compiler invoked for it.  The external actions of the run
\* are those of its files, in order.
C1_SkipOrCompile ==
    mode \in {"compileDapp", "compileLeafNodes"} =>
        /\ log = EventsOf(reached)
        /\ \A i \in DOMAIN reached :
             /\ reached[i].found = "nonempty" =>
                   (reached[i].outcome = "skipped" /\ reached[i].events = <<>>)
             /\ (i \in Finished /\ reached[i].found \in {"absent", "empty"}
                   /\ DeclaredNumber(reached[i].file) # NoMatch)
                   => /\ reached[i].outcome = "compiled"
                      /\ \E k \in DOMAIN reached[i].events :
                           /\ reached[i].events[k].op = "compile"
                           /\ reached[i].events[k].cmd.source = reached[i].file

\* A file found with an empty artifact was compiled and a later file, whose
\* artifact was by then not empty, was skipped.
C1_Witness ==
    /\ mode = "compileDapp"
    /\ \E i, j \in DOMAIN reached :
         /\ i < j
         /\ reached[i].found = "empty"
         /\ reached[i].outcome = "compiled"
         /\ reached[j].found = "nonempty"
         /\ reached[j].outcome = "skipped"

-----------------------------------------------------------------------------
(* C2 *)

\* The external actions the loop body of compileDapp issues for a file found
\* with the artifact in state found.
FullSetOutcome(f, found) ==
    IF found = "nonempty" THEN "skipped"
    ELSE IF DeclaresNoVersion(f) THEN "unknown"
    ELSE IF DeclaredNumber(f) = NoMatch THEN "raised"
    ELSE "compiled"

\* C2: the three entry points run the same steps on a file: whatever the entry
\* point, a file reached with the artifact in a given state has the external
\* actions the full-set driver issues for it: none when the artifact is not
\* empty (the single-file driver skips it too), else the switch to its version
\* and then the compile with the same command.
C2_SameSteps ==
    \A i \in Finished :
        /\ reached[i].outcome = FullSetOutcome(reached[i].file, reached[i].found)
        /\ reached[i].outcome # "compiled" => reached[i].events = <<>>
        /\ reached[i].outcome = "compiled" =>
              /\ Len(reached[i].events) = 2
              /\ reached[i].events[1] = [op |-> "switch", version |-> DeclaredNumber(reached[i].file)]
              /\ reached[i].events[2].op = "compile"
              /\ reached[i].events[2].cmd = CompileCommand(reached[i].file, InputDir, OutputDir)

-----------------------------------------------------------------------------
(* C3 *)

\* C3: when the driver reaches a file, does not skip it for its artifact, and
\* version extraction returns "unknown version" for it, the step issues no
\* version switch and no compile, writes no artifact, and leaves the driver at
\* the next file of the run (the run ends normally when there is none).
C3_UnknownVersion ==
    [][ (/\ Len(reached') = Len(reached) + 1
         /\ reached'[Len(reached')].outcome # "skipped"
         /\ DeclaresNoVersion(reached'[Len(reached')].file))
        => /\ reached'[Len(reached')].outcome = "unknown"
           /\ reached'[Len(reached')].events = <<>>
           /\ log' = log
           /\ outDir' = outDir
           /\ active' = active
           /\ queue' = Tail(queue)
           /\ pc' = "reach"
           /\ ret' = IF queue' = <<>> THEN EndOf(mode) ELSE "running" ]_vars

\* A file of unknown version was passed over and the file after it compiled.
C3_Witness ==
    \E i \in DOMAIN reached :
        /\ i < Len(reached)
        /\ reached[i].outcome = "unknown"
        /\ reached[i + 1].outcome = "compiled"

-----------------------------------------------------------------------------
(* C4 *)

-----------------------------------------------------------------------------
(* C9 *)

\* The file an import of file f is found at: under f's own path, else under
\* node_modules; None when it is found at neither.
FoundAt(f, d) ==
    IF Resolve(Join(f, d.path)) # None THEN Resolve(Join(f, d.path))
    ELSE Resolve(Join(NodeModulesDir, d.path))

InlineStep(S) ==
    S \cup (UNION {{FoundAt(f, Text(f).imports[i]) : i \in DOMAIN Text(f).imports} :
                     f \in S}
             \ {None})

\* The root and the files inlining it draws in.
Inlined(root) == InlineStep(InlineStep(InlineStep({root})))

\* Some import of the root, or of a file it draws in, is found nowhere.
MissingImport(root) ==
    \E f \in Inlined(root) : \E i \in DOMAIN Text(f).imports :
        FoundAt(f, Text(f).imports[i]) = None

\* C9: packing is all-or-nothing per root: a root with an import, its own or
\* one of a file inlined into it, that is found neither locally nor under
\* node_modules gets the failure sentinel and no packed file, while a root all
\* of whose files carry a version and whose imports are all found is packed.
C9_AllOrNothing ==
    gpc = "getPacked" =>
        \A root \in Scanned :
            /\ MissingImport(root) =>
                  /\ GetPackedContract(root, NodeModulesDir).version = "failed"
                  /\ ~packed[Stem(Last(root))].written
            /\ (/\ ~MissingImport(root)
                /\ \A f \in Inlined(root) : \E i \in DOMAIN Text(f).pragmas :
                      Text(f).pragmas[i].name = "solidity")
                  => packed[Stem(Last(root))].written

-----------------------------------------------------------------------------
(* C10 *)

\* C10: a compileDapp run that started on an empty output directory, in a tree
\* whose files all declare a version number, and whose compiles all wrote a
\* non-empty artifact, has at its end invoked the compiler exactly once for
\* every discovered file and left one artifact per source file.
C10_OncePerFile ==
    (/\ mode = "compileDapp"
     /\ ret \in {"True", "False"}
     /\ \A s \in DOMAIN startOut : startOut[s] = "absent"
     /\ \A f \in Scanned : DeclaredNumber(f) # NoMatch
     /\ \A i \in DOMAIN log : log[i].op = "compile" => log[i].wrote = "nonempty")
    => /\ \A f \in Scanned : Cardinality(CompilesOf(f)) = 1
       /\ Cardinality({s \in DOMAIN outDir : outDir[s] # "absent"}) = Cardinality(Scanned)

-----------------------------------------------------------------------------
(* C11 *)

\* The files of reached whose step came to one of the three per-file outcomes.
Processed ==
    {reached[i].file : i \in {j \in DOMAIN reached :
        reached[j].outcome \in {"skipped", "unknown", "compiled"}}}

\* C11: a compileDapp run that has ended has gone through the whole list of
\* discovered files: each of them was skipped for its artifact, failed for an
\* unknown version, or had the compiler invoked, whatever the files before it
\* hold (a text the structured parser rejects, a first pragma without a
\* version number).
C11_WholeList ==
    (mode = "compileDapp" /\ ret # "running") =>
        \A f \in Range(ParseContractList(InputDir)) : f \in Processed

-----------------------------------------------------------------------------
(* C12 *)

\* The quote-stripped import strings of the whole input directory that exist
\* nowhere on disk, and those of them that call for a remap flag.
UnresolvedStrings == {StrippedImport(d) : d \in {e \in Directives : Unresolved(e)}}
Remapped == {s \in UnresolvedStrings : s[1] # "."}

RemapOf(s) == [key |-> s[1], path |-> NodeModulesDir \o <<s[1]>>]

\* C12: every compile command of a run carries the remap flags of the whole
\* input directory, whatever file it compiles: one flag key = <library dir>/key
\* per unresolved import string, key being the string's first segment, and no
\* flag for the key "."; all compile commands of the run carry the same flags.
C12_RemapFlags ==
    \A i \in DOMAIN log : log[i].op = "compile" =>
        /\ Range(log[i].cmd.remaps) = {RemapOf(s) : s \in Remapped}
        /\ Len(log[i].cmd.remaps) = Cardinality(Remapped)
        /\ \A k \in DOMAIN log[i].cmd.remaps : log[i].cmd.remaps[k].key # "."
        /\ \A j \in DOMAIN log : log[j].op = "compile" =>
              Range(log[j].cmd.remaps) = Range(log[i].cmd.remaps)

\* A file without imports was compiled with the flag of another file's
\* unresolved library import, while that file's unresolved "./m.sol" gave none.
C12_Witness ==
    \E i \in DOMAIN log :
        /\ log[i].op = "compile"
        /\ log[i].cmd.source # FileA
        /\ ParseImportList(log[i].cmd.source) = <<>>
        /\ <<".", "m.sol">> \in UnresolvedStrings
        /\ log[i].cmd.remaps = << RemapOf(<<"@oz", "x.sol">>) >>

-----------------------------------------------------------------------------
(* C5 *)

-----------------------------------------------------------------------------
(* C6 *)

-----------------------------------------------------------------------------
(* C7 *)

\* C7: after parseDependency every scanned file is exactly one node, and a
\* missing node is created at most once per distinct unresolved path, however
\* many imports name that path.
C7_NodesOnce ==
    gpc = "parseDependency" =>
        /\ \A f \in Scanned : NodeCount(f) = 1
        /\ \A d \in Directives :
             Target(d) = None =>
                Cardinality({i \in DOMAIN dot.nodes :
                                /\ dot.nodes[i].label.kind = "404"
                                /\ Normpath(dot.nodes[i].name) = Normpath(ImportPath(d))}) <= 1

-----------------------------------------------------------------------------
(* C8 *)

NoRepeats(s) == \A i, j \in DOMAIN s : i # j => s[i] # s[j]

\* C8: calculateImportLib returns (k, n, L): n the number of scanned files, k
\* the number of scanned files with at least one import whose quote-stripped
\* path does not exist, each counted once, so 0 <= k <= n; L holds every
\* unresolved import string once, and only strings that are unresolved for a
\* file importing them.
C8_ImportLib ==
    gpc = "calculateImportLib" =>
        /\ libResult.total = Cardinality(Scanned)
        /\ libResult.libNum =
              Cardinality({f \in Scanned : \E d \in Directives : d[1] = f /\ Unresolved(d)})
        /\ libResult.libNum <= libResult.total
        /\ Range(libResult.libs) = {StrippedImport(d) : d \in {e \in Directives : Unresolved(e)}}
        /\ NoRepeats(libResult.libs)

\* One file with two unresolved imports of the same string, beside files with
\* none: counted once, listed once.
C8_Witness ==
    /\ gpc = "calculateImportLib"
    /\ ParseImportList(FileA) = << <<"m.sol">>, <<"m.sol">> >>
    /\ libResult.libNum = 1
    /\ libResult.total >= 2
    /\ libResult.libs = << <<"m.sol">> >>

====
